---- MODULE Spec2Model ----
(***************************************************************************)
(* Dialogue orchestration core of ai-buddy: the layered train-status       *)
(* lookup (train_tracking.py) and the Groq-backed intent router, email     *)
(* drafter and daily-briefing aggregator (grok_ai.py).                     *)
(*                                                                         *)
(* Every public operation is one action.  The upstream services (RapidAPI, *)
(* Groq) are the environment: each call draws one outcome from a small set *)
(* of transport failures and reply bodies.                                 *)
(***************************************************************************)
EXTENDS Integers, Sequences, FiniteSets, TLC

VARIABLES
    GROK_API_KEY,          \* grok_ai.py:10, read once from the environment
    RAPIDAPI_KEY,          \* train_tracking.py:12, read once from the environment
    conversation_history,  \* the caller's list of turns handed to the drafter
    op,                    \* the operation that ran last
    arg,                   \* its argument
    upstream,              \* what the upstream service did during that call
    net_calls,             \* requests.get / requests.post calls issued by that call
    ret                    \* what the operation returned (or that it raised)

vars == <<GROK_API_KEY, RAPIDAPI_KEY, conversation_history, op, arg, upstream,
          net_calls, ret>>

\* ------------------------------------------------------------------ bounds
\* Longest turn history the session is followed for.
MaxTurns == 3
\* Most whitespace characters put on either side of a lookup key.
MaxPad == 1

\* ----------------------------------------------------------- configuration
\* os.environ.get(...) yields None when the variable is unset; an exported
\* but empty variable yields "".
None == "None"
KeyValues == {None, "", "secret-key"}

\* A test for None alone: an empty key counts as configured.
Truthy_not_none(v) == v # None

\* Python truthiness of an optional string: if KEY: / if not KEY:.
Truthy(v) == v # None /\ v # ""

NotCalled == [kind |-> "not_called"]

\* ======================================================================
\* train_tracking.py
\* ======================================================================
DEMO_PNR == <<"8", "2", "0", "4", "5", "6", "7", "8", "9", "0">>

\* Characters str.strip() removes at both ends (the ones the model feeds in).
Whitespace == {" ", "\t"}

\* str.replace(" ", ""): every space character is dropped, wherever it is.
RECURSIVE replace_space(_)
replace_space(s) ==
    IF s = <<>> THEN <<>>
    ELSE IF Head(s) = " " THEN replace_space(Tail(s))
    ELSE <<Head(s)>> \o replace_space(Tail(s))

RECURSIVE lstrip(_)
lstrip(s) ==
    IF s # <<>> /\ Head(s) \in Whitespace THEN lstrip(Tail(s)) ELSE s

RECURSIVE rstrip(_)
rstrip(s) ==
    IF s # <<>> /\ s[Len(s)] \in Whitespace THEN rstrip(SubSeq(s, 1, Len(s) - 1)) ELSE s

\* str.strip()
strip(s) == rstrip(lstrip(s))

\* The key trimmed at both ends and nothing else.
clean_pnr_strip_only(pnr) == strip(pnr)

\* clean_pnr = str(pnr).replace(" ", "").strip()
clean_pnr_of(pnr) == strip(replace_space(pnr))

\* A reservation number other than the demo one, a structurally short key.
OTHER_PNR == <<"2", "4", "1", "6", "7", "8", "9", "0", "1", "2">>
SHORT_PNR == <<"8", "2", "0", "4", "5">>
KeyBases == {DEMO_PNR, OTHER_PNR, SHORT_PNR}

\* Runs of whitespace of at most MaxPad characters.
Pads == UNION {[1..n -> Whitespace] : n \in 0..MaxPad}

\* s with w put in after its first half ("82045 67890").
InsertMid(s, w) ==
    SubSeq(s, 1, Len(s) \div 2) \o w \o SubSeq(s, Len(s) \div 2 + 1, Len(s))

\* The lookup keys fed to get_pnr_status: a base key, possibly with whitespace
\* in front, behind and between its digits.
LookupKeys ==
    {l \o InsertMid(b, m) \o r :
        b \in KeyBases, l \in Pads, r \in Pads, m \in {<<>>, <<" ">>, <<"\t">>}}

\* --- the provider's reply ------------------------------------------------
ProviderKeys == {"trainName", "doj", "bookingStatus", "currentStatus", "coach",
                 "berthNumber", "delay", "currentStation", "destinationName"}

\* What the provider sends under each key.  A JSON number and the string of
\* its digits are one value here: int() maps both to the same integer.
FullInfo ==
    [k \in ProviderKeys |->
        CASE k = "trainName" -> "12002 - Shatabdi Express"
          [] k = "doj" -> "05-11-2026"
          [] k = "bookingStatus" -> "WL 12"
          [] k = "currentStatus" -> "RAC 3"
          [] k = "coach" -> "S7"
          [] k = "berthNumber" -> "44"
          [] k = "delay" -> "40"
          [] k = "currentStation" -> "Bhopal Jn"
          [] k = "destinationName" -> "Habibganj"]

Restrict(f, S) == [k \in S |-> f[k]]

\* The data member of the reply, when it is a JSON object.
ProviderInfos ==
    { FullInfo,
      Restrict(FullInfo, {"trainName", "currentStatus"}),
      Restrict(FullInfo, ProviderKeys \ {"delay"}),
      [FullInfo EXCEPT !["delay"] = "late"],
      [FullInfo EXCEPT !["delay"] = None],
      [FullInfo EXCEPT !["coach"] = None] }

EmptyInfo == Restrict(FullInfo, {})

\* The data member of the reply: absent, null, a string, a list or an object.
ProviderData ==
    {[type |-> t, fields |-> EmptyInfo] : t \in {"absent", "null", "str", "list", "dict"}}
    \cup {[type |-> "dict", fields |-> f] : f \in ProviderInfos}

\* The body of a 200 reply: not JSON at all, a JSON list, or a JSON object with
\* an optional status member and the data member.
ProviderBodies ==
    {[type |-> t, status |-> "absent", data |-> [type |-> "absent", fields |-> EmptyInfo]] :
        t \in {"invalid_json", "list"}}
    \cup {[type |-> "dict", status |-> s, data |-> d] :
            s \in {"absent", "true", "false"}, d \in ProviderData}

NoBody == [type |-> "invalid_json", status |-> "absent",
           data |-> [type |-> "absent", fields |-> EmptyInfo]]

\* What requests.get does: raises (timeout, connection error) or hands back a
\* response with a status code and a body.
HTTP_OK == 200
LiveOutcomes ==
    {[kind |-> k, status_code |-> 0, body |-> NoBody] : k \in {"timeout", "connection_error"}}
    \cup {[kind |-> "response", status_code |-> c, body |-> NoBody] : c \in {404, 500}}
    \cup {[kind |-> "response", status_code |-> HTTP_OK, body |-> b] : b \in ProviderBodies}

\* Python truthiness of the data member: data.get("data")
DataTruthy(d) ==
    \/ d.type \in {"str", "list"}      \* a non-empty string or list
    \/ d.type = "dict" /\ DOMAIN d.fields # {}

\* info.get(key, default)
dict_get(info, key, default) == IF key \in DOMAIN info THEN info[key] ELSE default

\* int(x) for the values the provider sends under "delay" that int() accepts.
int_of(x) == CASE x = "0" -> 0 [] x = "40" -> 40 [] OTHER -> 0

\* --- the three layers ----------------------------------------------------
\* Lines 28-42: the canned record of the demo reservation.
DemoResult(clean_pnr) ==
    [kind |-> "value", success |-> TRUE,
     data |-> [train_name |-> "12951 - Rajdhani Express",
               pnr |-> clean_pnr,
               doj |-> "tomorrow",
               booking_status |-> "CNF",
               current_status |-> "CNF",
               coach |-> "A4",
               berth |-> "21",
               delay_minutes |-> 15,
               current_location |-> "Crossing Vadodara Jn",
               destination |-> "New Delhi"]]

\* The provider's record handed on under its own keys, nothing filled in.
LiveResult_unmapped(clean_pnr, info) ==
    [kind |-> "value", success |-> TRUE,
     data |-> [k \in {"pnr"} \cup DOMAIN info |->
                  IF k = "pnr" THEN clean_pnr ELSE info[k]]]

\* Lines 63-77: the provider's record mapped to the internal shape.
LiveResult(clean_pnr, info) ==
    [kind |-> "value", success |-> TRUE,
     data |-> [train_name |-> dict_get(info, "trainName", "Unknown Train"),
               pnr |-> clean_pnr,
               doj |-> dict_get(info, "doj", "N/A"),
               booking_status |-> dict_get(info, "bookingStatus", "CNF"),
               current_status |-> dict_get(info, "currentStatus", "CNF"),
               coach |-> dict_get(info, "coach", "N/A"),
               berth |-> dict_get(info, "berthNumber", "N/A"),
               delay_minutes |-> int_of(dict_get(info, "delay", "0")),
               current_location |-> dict_get(info, "currentStation", "En Route"),
               destination |-> dict_get(info, "destinationName", "Destination")]]

\* random.randint(1, 5), random.randint(1, 72), random.choice([0, 5, 10, 25])
COACH_LO == 1
COACH_HI == 5
BERTH_LO == 1
BERTH_HI == 72
DelayChoices == {0, 5, 10, 25}
\* The draws the model follows: both ends of each range, every delay.
RandomDraws ==
    [coach : {COACH_LO, COACH_HI}, berth : {BERTH_LO, BERTH_HI}, delay : DelayChoices]

\* Lines 85-99: the simulated record.
SimulatedResult(clean_pnr, rnd) ==
    [kind |-> "value", success |-> TRUE,
     data |-> [train_name |-> "Superfast Express (Simulation)",
               pnr |-> clean_pnr,
               doj |-> "today",
               booking_status |-> "CNF",
               current_status |-> "CNF",
               coach |-> "B" \o ToString(rnd.coach),
               berth |-> ToString(rnd.berth),
               delay_minutes |-> rnd.delay,
               current_location |-> "On Time",
               destination |-> "End Station"]]

\* Line 61: the reply reports data.
HasData(body) == body.status = "true" \/ DataTruthy(body.data)

\* info = data.get("data", {})
InfoOf(out) == out.body.data.fields

\* Lines 47-77: the exception the try block raises for this outcome of the
\* call, "none" when it raises nothing.
LiveException(out) ==
    CASE out.kind = "timeout" -> "Timeout"
      [] out.kind = "connection_error" -> "ConnectionError"
      [] out.status_code # HTTP_OK -> "none"
      [] out.body.type = "invalid_json" -> "JSONDecodeError"   \* response.json()
      [] out.body.type = "list" -> "AttributeError"            \* data.get on a list
      [] ~HasData(out.body) -> "none"
      [] out.body.data.type \in {"null", "str", "list"} -> "AttributeError"  \* info.get
      [] dict_get(InfoOf(out), "delay", "0") = "late" -> "ValueError"      \* int("late")
      [] dict_get(InfoOf(out), "delay", "0") = None -> "TypeError"         \* int(None)
      [] OTHER -> "none"

\* A handler that names only the transport errors of requests.
Caught_transport_only(exc) == exc \in {"Timeout", "ConnectionError"}

\* Line 78: except Exception catches every exception the block raises.
Caught(exc) == TRUE

\* Lines 56-77: the live layer returns a record.
LiveReturns(out) ==
    /\ LiveException(out) = "none"
    /\ out.status_code = HTTP_OK
    /\ HasData(out.body)

Raised(exc) == [kind |-> "raised", exc |-> exc]

\* The live layer tried before the demo shortcut.
layer_of_live_first(clean_pnr, key) ==
    IF Truthy(key) THEN "Live"
    ELSE IF clean_pnr = DEMO_PNR THEN "Shortcut"
    ELSE "Simulated"

\* Lines 27, 45, 82: the order in which the layers are tried.
layer_of(clean_pnr, key) ==
    IF clean_pnr = DEMO_PNR THEN "Shortcut"
    ELSE IF Truthy(key) THEN "Live"
    ELSE "Simulated"

\* get_pnr_status, lines 17-99.
get_pnr_status ==
    \E pnr \in LookupKeys :
        LET clean_pnr == clean_pnr_of(pnr)
            layer == layer_of(clean_pnr, RAPIDAPI_KEY)
        IN
        /\ op = "none"
        /\ conversation_history = <<>>
        /\ op' = "get_pnr_status"
        /\ arg' = [pnr |-> pnr]
        /\ CASE layer = "Shortcut" ->
                /\ upstream' = NotCalled
                /\ net_calls' = 0
                /\ ret' = DemoResult(clean_pnr)
             [] layer = "Live" ->
                \E out \in LiveOutcomes :
                    /\ upstream' = out
                    /\ net_calls' = 1
                    /\ IF LiveReturns(out)
                       THEN ret' = LiveResult(clean_pnr, InfoOf(out))
                       ELSE IF LiveException(out) # "none" /\ ~Caught(LiveException(out))
                       THEN ret' = Raised(LiveException(out))
                       ELSE \E rnd \in RandomDraws : ret' = SimulatedResult(clean_pnr, rnd)
             [] layer = "Simulated" ->
                /\ upstream' = NotCalled
                /\ net_calls' = 0
                /\ \E rnd \in RandomDraws : ret' = SimulatedResult(clean_pnr, rnd)
        /\ UNCHANGED <<GROK_API_KEY, RAPIDAPI_KEY, conversation_history>>

\* ======================================================================
\* grok_ai.py: the Groq chat-completions call
\* ======================================================================
\* What requests.post and the reply envelope can be.  envelope says how far
\* response.json()["choices"][0]["message"]["content"] gets:
\*   "invalid_json"  response.json() raises
\*   "no_choices"    the object has no "choices" member      (KeyError)
\*   "empty_choices" "choices" is an empty list              (IndexError)
\*   "null_content"  the content member is null
\*   "ok"            the content is the string content
GroqFailures ==
    {[kind |-> k, status_code |-> 0, envelope |-> "none"] :
        k \in {"timeout", "connection_error"}}
    \cup {[kind |-> "response", status_code |-> c, envelope |-> "none"] :
            c \in {401, 429, 500}}
    \cup {[kind |-> "response", status_code |-> HTTP_OK, envelope |-> e] :
            e \in {"invalid_json", "no_choices", "empty_choices"}}

NullContent == [kind |-> "response", status_code |-> HTTP_OK, envelope |-> "null_content"]

GroqReply(c) ==
    [kind |-> "response", status_code |-> HTTP_OK, envelope |-> "ok", content |-> c]

\* The exception raised by requests.post, raise_for_status() and the walk
\* through the envelope; "none" when the content string is reached.
EnvelopeException(out) ==
    CASE out.kind = "timeout" -> "Timeout"
      [] out.kind = "connection_error" -> "ConnectionError"
      [] out.status_code # HTTP_OK -> "HTTPError"             \* raise_for_status()
      [] out.envelope = "invalid_json" -> "JSONDecodeError"
      [] out.envelope = "no_choices" -> "KeyError"
      [] out.envelope = "empty_choices" -> "IndexError"
      [] OTHER -> "none"

\* --- JSON texts handed to json.loads by the router and the briefing ------
\* A content string is either no JSON at all or the text of one JSON value;
\* a value is an object with members, or an array, null or a number.
EmptyMembers == [k \in {} |-> ""]
InvalidJsonText == [valid |-> FALSE, value |-> [type |-> "null", members |-> EmptyMembers]]
JsonText(v) == [valid |-> TRUE, value |-> v]
JsonObject(m) == [type |-> "object", members |-> m]
NonObjects == {[type |-> t, members |-> EmptyMembers] : t \in {"array", "null", "number"}}

\* json.loads(content) on the content of the reply: the exception it raises,
\* "none" when it returns.  json.loads(None) is a TypeError.
LoadsException(out) ==
    CASE out.envelope = "null_content" -> "TypeError"
      [] ~out.content.valid -> "JSONDecodeError"
      [] OTHER -> "none"

\* ======================================================================
\* grok_ai.py: route_user_intent
\* ======================================================================
\* The fifteen intents the prompt lists (lines 236-297).
Intents ==
    {"schedule_meeting", "set_reminder", "get_reminders", "log_expense",
     "convert_currency", "get_weather", "drive_search_file", "drive_upload_file",
     "drive_analyze_file", "youtube_search", "email_assistant", "get_bot_identity",
     "get_features", "train_tracking", "general_query"}

\* Entities: a JSON object (items holds its members, if any) or an array of
\* objects.
EmptyEntities == [type |-> "object", items |-> <<>>]
ObjectEntities(m) == [type |-> "object", items |-> <<m>>]
ArrayEntities(items) == [type |-> "array", items |-> items]

\* Lines 224 and 318: {"intent": "general_query", "entities": {}}
general_query_result ==
    JsonObject([intent |-> "general_query", entities |-> EmptyEntities])

RouteTexts ==
    {"remind me to call mom every day at 9pm", "check pnr 8204567890", "asdf qwer zxcv"}

\* Line 227: datetime.now(), the clock reading the prompt carries: a date and
\* an hour of the day, before and after nine in the evening.
Clock == {[date |-> "2026-11-03", hour |-> h] : h \in {10, 22}}

\* Values the classifier's content may denote.
RouteValues ==
    { general_query_result,
      JsonObject([intent |-> "general_query",
                  entities |-> ObjectEntities([query |-> "asdf qwer zxcv"])]),
      JsonObject([intent |-> "train_tracking",
                  entities |-> ObjectEntities([pnr |-> "8204567890"])]),
      JsonObject([intent |-> "set_reminder",
                  entities |-> ArrayEntities(<<[task |-> "call mom",
                                               timestamp |-> "2026-11-03 21:00:00",
                                               recurrence |-> "daily"]>>)]),
      JsonObject([intent |-> "set_reminder",
                  entities |-> ArrayEntities(<<[task |-> "call mom",
                                               timestamp |-> "2026-11-04 21:00:00",
                                               recurrence |-> "daily"]>>)]),
      JsonObject([intent |-> "set_reminder",
                  entities |-> ArrayEntities(<<[task |-> "call mom",
                                               timestamp |-> None,
                                               recurrence |-> "daily"]>>)]),
      JsonObject([intent |-> "set_reminder",
                  entities |-> ArrayEntities(<<[task |-> "call mom",
                                               recurrence |-> "daily"]>>)]),
      JsonObject([intent |-> "unknown", entities |-> EmptyEntities]),
      JsonObject([intent |-> "general_query"]),
      JsonObject([entities |-> EmptyEntities]),
      JsonObject([error |-> "I could not understand the request"]),
      JsonObject(EmptyMembers) }
    \cup NonObjects

RouteOutcomes ==
    GroqFailures \cup {NullContent, GroqReply(InvalidJsonText)}
    \cup {GroqReply(JsonText(v)) : v \in RouteValues}

Value(v) == [kind |-> "value", value |-> v]

\* Lines 312-318: the try block and its handler.
route_result(out) ==
    IF EnvelopeException(out) # "none" \/ LoadsException(out) # "none"
    THEN Value(general_query_result)          \* except Exception, line 316
    ELSE Value(out.content.value)             \* json.loads(...), line 315

\* route_user_intent, lines 222-318.
route_user_intent ==
    \E text \in RouteTexts, now \in Clock :
        /\ op = "none"
        /\ conversation_history = <<>>
        /\ op' = "route_user_intent"
        /\ arg' = [text |-> text, now |-> now]
        /\ IF ~Truthy(GROK_API_KEY)
           THEN /\ upstream' = NotCalled
                /\ net_calls' = 0
                /\ ret' = Value(general_query_result)
           ELSE \E out \in RouteOutcomes :
                /\ upstream' = out
                /\ net_calls' = 1
                /\ ret' = route_result(out)
        /\ UNCHANGED <<GROK_API_KEY, RAPIDAPI_KEY, conversation_history>>

\* ======================================================================
\* grok_ai.py: draft_email_interactive
\* ======================================================================
\* The model's text is a sequence of pieces; each piece is a stretch of
\* characters the code below treats as a unit.
LB == "{"
RB == "}"
COMMA == ","
WS == "\n"
FENCE == "<three backticks>"
FENCE_JSON == "<three backticks>json"
\* the member the regular expression of line 139 looks for
ACT == "\"action\": \"SEND_EMAIL\""
\* the same member written with a space before the colon: valid JSON, but
\* not matched by "action":\s*"SEND_EMAIL"
ACT_SPACED == "\"action\" : \"SEND_EMAIL\""
\* the four other members of the send command, comma separated
REST == "\"recipient_email\": \"boss@example.com\", \"subject\": \"Leave request\", \"body\": \"...Best regards, Dhruvin\", \"scheduled_time\": \"NOW\""
\* one member alone
SUBJ == "\"subject\": \"Leave request\""
\* a key and its colon, an object value follows
KEY_DRAFT == "\"draft\":"
\* prose
QUESTION == "What is the specific reason? Any dates?"
DRAFT_TEXT == "Subject: Leave request ... Shall I send this, or do you want to make changes?"
INTRO == "Here is the final email:"
OUTRO == "Let me know if you need anything else."
WORD == "placeholder"

\* The two static replies of lines 90 and 156.
KEY_MISSING == "Groq API Key is missing."
APOLOGY == "I'm having trouble connecting to the AI right now. Please try again later."

\* --- re.search(r'\{[\s\S]*"action":\s*"SEND_EMAIL"[\s\S]*\}', content) ----
Positions(s, tok) == {i \in 1..Len(s) : s[i] = tok}
Min(S) == CHOOSE x \in S : \A y \in S : x <= y
Max(S) == CHOOSE x \in S : \A y \in S : x >= y

NoMatch == [found |-> FALSE, start |-> 0, end |-> 0]

\* The leftmost match starts at the first "{" that has the discriminator and
\* then a "}" somewhere after it; that is the first "{" of the text if any
\* "{" will do.  Both [\s\S]* are greedy, so the match runs to the last "}".
re_search(s) ==
    IF Positions(s, LB) = {} \/ Positions(s, RB) = {} THEN NoMatch
    ELSE LET start == Min(Positions(s, LB))
             end == Max(Positions(s, RB))
         IN IF \E j \in Positions(s, ACT) : start < j /\ j < end
            THEN [found |-> TRUE, start |-> start, end |-> end]
            ELSE NoMatch

\* json_match.group(0)
group0(s, m) == SubSeq(s, m.start, m.end)

\* Line 145: both fence markers are replaced by the empty string.
RECURSIVE remove_fences(_)
remove_fences(s) ==
    IF s = <<>> THEN <<>>
    ELSE IF Head(s) \in {FENCE_JSON, FENCE} THEN remove_fences(Tail(s))
    ELSE <<Head(s)>> \o remove_fences(Tail(s))

RECURSIVE strip_ws(_)
strip_ws(s) ==
    IF s # <<>> /\ Head(s) = WS THEN strip_ws(Tail(s))
    ELSE IF s # <<>> /\ s[Len(s)] = WS THEN strip_ws(SubSeq(s, 1, Len(s) - 1))
    ELSE s

\* The whole reply handed to json.loads, no match taken out of it and no
\* fence removed.
json_str_whole(content) == content

\* Lines 143-145: the string handed to json.loads.
json_str_of(content) == strip_ws(remove_fences(group0(content, re_search(content))))

\* --- json.loads on a sequence of pieces -----------------------------------
\* A parsed object is the set of its leaves: <<path of keys, value>>; an
\* empty object is the leaf <<path, "{}">>.
IsPrefix(p, q) == Len(p) <= Len(q) /\ SubSeq(q, 1, Len(p)) = p

\* obj[key] = value: a member written twice keeps its last value.
Put(obj, path, leaves) == {l \in obj : ~IsPrefix(path, l[1])} \cup leaves

RECURSIVE SkipWs(_, _)
SkipWs(s, i) == IF i <= Len(s) /\ s[i] = WS THEN SkipWs(s, i + 1) ELSE i

ParseFail == [ok |-> FALSE, next |-> 0, val |-> {}]

RestLeaves(path) ==
    {<<path \o <<"recipient_email">>, "boss@example.com">>,
     <<path \o <<"subject">>, "Leave request">>,
     <<path \o <<"body">>, "...Best regards, Dhruvin">>,
     <<path \o <<"scheduled_time">>, "NOW">>}

RECURSIVE ParseObject(_, _, _), ParseMembers(_, _, _, _)

\* s[i] is "{": the object that starts there.
ParseObject(s, i, path) ==
    LET j == SkipWs(s, i + 1) IN
    IF j > Len(s) THEN ParseFail
    ELSE IF s[j] = RB THEN [ok |-> TRUE, next |-> j + 1, val |-> {<<path, "{}">>}]
    ELSE ParseMembers(s, j, path, {})

\* A member starts at s[i]; acc holds the members read so far.
ParseMembers(s, i, path, acc) ==
    LET member ==
            IF i > Len(s) THEN ParseFail
            ELSE IF s[i] \in {ACT, ACT_SPACED}
            THEN [ok |-> TRUE, next |-> i + 1,
                  val |-> Put(acc, path \o <<"action">>,
                              {<<path \o <<"action">>, "SEND_EMAIL">>})]
            ELSE IF s[i] = SUBJ
            THEN [ok |-> TRUE, next |-> i + 1,
                  val |-> Put(acc, path \o <<"subject">>,
                              {<<path \o <<"subject">>, "Leave request">>})]
            ELSE IF s[i] = REST
            THEN [ok |-> TRUE, next |-> i + 1,
                  val |-> {l \in acc : l \notin RestLeaves(path) /\
                              ~\E r \in RestLeaves(path) : IsPrefix(r[1], l[1])}
                          \cup RestLeaves(path)]
            ELSE IF s[i] = KEY_DRAFT
            THEN LET j == SkipWs(s, i + 1) IN
                 IF j > Len(s) \/ s[j] # LB THEN ParseFail
                 ELSE LET r == ParseObject(s, j, path \o <<"draft">>) IN
                      IF ~r.ok THEN ParseFail
                      ELSE [ok |-> TRUE, next |-> r.next,
                            val |-> Put(acc, path \o <<"draft">>, r.val)]
            ELSE ParseFail
    IN
    IF ~member.ok THEN ParseFail
    ELSE LET k == SkipWs(s, member.next) IN
         IF k > Len(s) THEN ParseFail
         ELSE IF s[k] = RB THEN [ok |-> TRUE, next |-> k + 1, val |-> member.val]
         ELSE IF s[k] = COMMA THEN ParseMembers(s, SkipWs(s, k + 1), path, member.val)
         ELSE ParseFail

\* json.loads(s): one JSON value and nothing after it; ok = FALSE is the
\* JSONDecodeError.
json_loads(s) ==
    LET i == SkipWs(s, 1) IN
    IF i > Len(s) \/ s[i] # LB THEN ParseFail
    ELSE LET r == ParseObject(s, i, <<>>) IN
         IF r.ok /\ SkipWs(s, r.next) = Len(s) + 1 THEN r ELSE ParseFail

Text(t) == [kind |-> "text", text |-> t]
Object(leaves) == [kind |-> "object", members |-> leaves]

\* The handler of line 147 swallowing the text: nothing is returned when the
\* fragment does not parse.
extract_commit_silent(content) ==
    IF re_search(content).found
    THEN LET parsed == json_loads(json_str_of(content)) IN
         IF parsed.ok THEN Object(parsed.val)
         ELSE Text(<<>>)
    ELSE Text(content)

\* Lines 139-152: what is returned for the content the model wrote.
extract_commit(content) ==
    IF re_search(content).found
    THEN LET parsed == json_loads(json_str_of(content)) IN
         IF parsed.ok THEN Object(parsed.val)     \* line 146
         ELSE Text(content)                       \* line 150
    ELSE Text(content)                            \* line 152

\* Lines 132-156: the try block and its handler.  re.search(None) raises a
\* TypeError when the content is null.
draft_result(out) ==
    IF EnvelopeException(out) # "none" \/ out.envelope = "null_content"
    THEN Text(<<APOLOGY>>)
    ELSE extract_commit(out.content)

\* --- the texts the model may write ----------------------------------------
Cores ==
    { <<LB, ACT, COMMA, REST, RB>>,
      <<LB, WS, REST, COMMA, WS, ACT, WS, RB>>,
      <<LB, ACT, RB>>,
      <<LB, ACT, COMMA, SUBJ, RB>>,
      <<LB, KEY_DRAFT, LB, ACT, COMMA, REST, RB, RB>>,
      <<LB, KEY_DRAFT, LB, RB, COMMA, ACT, COMMA, REST, RB>>,
      <<LB, ACT_SPACED, COMMA, REST, RB>>,
      <<LB, ACT, COMMA, REST>>,
      <<LB, ACT, COMMA, RB>>,
      <<LB, REST, RB>>,
      <<ACT>>,
      <<QUESTION>>,
      <<DRAFT_TEXT>> }

Prefixes ==
    { <<>>, <<FENCE_JSON, WS>>, <<FENCE, WS>>, <<INTRO, WS>>,
      <<INTRO, LB, WORD, RB, WS>> }

Suffixes ==
    { <<>>, <<WS, FENCE>>, <<WS, OUTRO>>, <<WS, LB, WORD, RB>> }

Contents == {p \o c \o x : p \in Prefixes, c \in Cores, x \in Suffixes}

DraftOutcomes == GroqFailures \cup {NullContent} \cup {GroqReply(c) : c \in Contents}

\* --- the session ------------------------------------------------------------
UserMessages ==
    {"write to my boss about leave", "revise the subject", "yes, send it"}


Turn(role, content) == [role |-> role, content |-> content]
LastRole(h) == IF h = <<>> THEN "none" ELSE h[Len(h)].role

\* The reply appended to the caller's list in place.
history_after_call_appends(history, result) ==
    Append(history, Turn("assistant", IF result.kind = "text" THEN result.text ELSE <<>>))

\* Line 123: messages = [system] + conversation_history builds a new list;
\* the caller's list is what it was.
history_after_call(history, result) == history

\* draft_email_interactive, lines 84-156.
draft_email_interactive ==
    /\ op = "none"
    /\ op' = "draft_email_interactive"
    /\ arg' = [conversation_history |-> conversation_history]
    /\ IF ~Truthy(GROK_API_KEY)
       THEN /\ upstream' = NotCalled
            /\ net_calls' = 0
            /\ ret' = Text(<<KEY_MISSING>>)
            /\ conversation_history' = history_after_call(conversation_history, ret')
       ELSE \E out \in DraftOutcomes :
            /\ upstream' = out
            /\ net_calls' = 1
            /\ ret' = draft_result(out)
            /\ conversation_history' = history_after_call(conversation_history, ret')
    /\ UNCHANGED <<GROK_API_KEY, RAPIDAPI_KEY>>

\* The user's next message is appended to the session's turns (the message
\* handler; spec section 4.2).
user_turn ==
    \E msg \in UserMessages :
        /\ op = "none"
        /\ Len(conversation_history) < MaxTurns
        /\ LastRole(conversation_history) \in {"none", "assistant"}
        /\ conversation_history' = Append(conversation_history, Turn("user", <<msg>>))
        /\ UNCHANGED <<GROK_API_KEY, RAPIDAPI_KEY, op, arg, upstream, net_calls, ret>>

\* The handler appends the drafter's reply to the session's turns and is done
\* with the message.  The sessions followed are those whose replies so far
\* were a clarifying question or a draft.
record_reply ==
    /\ op = "draft_email_interactive"
    /\ ret.kind = "text"
    /\ ret.text \in {<<QUESTION>>, <<DRAFT_TEXT>>}
    /\ LastRole(conversation_history) = "user"
    /\ Len(conversation_history) < MaxTurns
    /\ conversation_history' = Append(conversation_history, Turn("assistant", ret.text))
    /\ op' = "none"
    /\ arg' = [none |-> TRUE]
    /\ upstream' = NotCalled
    /\ net_calls' = 0
    /\ ret' = [kind |-> "none"]
    /\ UNCHANGED <<GROK_API_KEY, RAPIDAPI_KEY>>

\* The session is destroyed: on commit, on cancel, on timeout.
session_closed ==
    /\ op = "none"
    /\ conversation_history # <<>>
    /\ conversation_history' = <<>>
    /\ UNCHANGED <<GROK_API_KEY, RAPIDAPI_KEY, op, arg, upstream, net_calls, ret>>

\* ======================================================================
\* grok_ai.py: generate_full_daily_briefing
\* ======================================================================
BriefingKeys == {"greeting", "quote_explanation", "detailed_history", "detailed_weather"}

\* Lines 165-170: the bundle returned when no API key is configured.
NoKeyBundle(user_name) ==
    JsonObject([greeting |-> <<"Good Morning, ", user_name, "!">>,
                quote_explanation |-> <<"Have a great day!">>,
                detailed_history |-> <<"No historical fact found for today.">>,
                detailed_weather |-> <<"Weather data is currently unavailable.">>])

\* Lines 213-218: the bundle returned by the exception handler.
ErrorBundle(user_name) ==
    JsonObject([greeting |-> <<"Good Morning, ", user_name, "!">>,
                quote_explanation |-> <<"Could not generate explanation.">>,
                detailed_history |-> <<"Could not generate historical fact.">>,
                detailed_weather |-> <<"Could not generate weather forecast.">>])

\* The text the model writes for a key.
AiText(k) == <<"AI text for ", k>>
AiBundle == [k \in BriefingKeys \cup {"sources"} |-> AiText(k)]

\* Values the content of the reply may denote: the four keys, some of them,
\* the four and one more, no member at all, or no object.
BriefingValues ==
    { JsonObject(Restrict(AiBundle, BriefingKeys)),
      JsonObject(Restrict(AiBundle, BriefingKeys \ {"detailed_history"})),
      JsonObject(Restrict(AiBundle, {"greeting"})),
      JsonObject(AiBundle),
      JsonObject(EmptyMembers) }
    \cup NonObjects

BriefingOutcomes ==
    GroqFailures \cup {NullContent, GroqReply(InvalidJsonText)}
    \cup {GroqReply(JsonText(v)) : v \in BriefingValues}

\* An entry of history_events: a dict with a "text" member, a dict without
\* one, or something that is no dict (a bare string).
HistoryEvents ==
    {[type |-> "dict", text |-> "1869: the Suez Canal opens"],
     [type |-> "dict", text |-> None],
     [type |-> "str", text |-> "1869: the Suez Canal opens"]}

HistoryLists == {<<>>} \cup {<<e>> : e \in HistoryEvents}

\* weather_data: a dict json.dumps can write, None, or a dict holding a value
\* json.dumps cannot write (a datetime).
WeatherPayloads == {"serializable", "none", "unserializable"}

BriefingArgs ==
    [user_name : {"Dhruvin"}, festival_name : {None, "Diwali"},
     history_events : HistoryLists, weather_data : WeatherPayloads]

\* Lines 172-198, which run before the try block: the exception they raise,
\* "none" when the prompt is built.
PromptException(a) ==
    IF \E i \in 1..Len(a.history_events) : a.history_events[i].type # "dict"
    THEN "AttributeError"                    \* event.get on a str, line 172
    ELSE IF a.weather_data = "unserializable"
    THEN "TypeError"                         \* json.dumps(weather_data), line 194
    ELSE "none"

\* Lines 206-218: the try block and its handler.
briefing_result(a, out) ==
    IF EnvelopeException(out) # "none" \/ LoadsException(out) # "none"
    THEN Value(ErrorBundle(a.user_name))     \* except Exception, line 211
    ELSE Value(out.content.value)            \* json.loads(result_text), line 210

\* generate_full_daily_briefing, lines 160-218.
generate_full_daily_briefing ==
    \E a \in BriefingArgs :
        /\ op = "none"
        /\ conversation_history = <<>>
        /\ op' = "generate_full_daily_briefing"
        /\ arg' = a
        /\ IF ~Truthy(GROK_API_KEY)
           THEN /\ upstream' = NotCalled
                /\ net_calls' = 0
                /\ ret' = Value(NoKeyBundle(a.user_name))
           ELSE IF PromptException(a) # "none"
           THEN /\ upstream' = NotCalled
                /\ net_calls' = 0
                /\ ret' = Raised(PromptException(a))
           ELSE \E out \in BriefingOutcomes :
                /\ upstream' = out
                /\ net_calls' = 1
                /\ ret' = briefing_result(a, out)
        /\ UNCHANGED <<GROK_API_KEY, RAPIDAPI_KEY, conversation_history>>

\* ======================================================================
NoArg == [none |-> TRUE]
NoRet == [kind |-> "none"]

Init ==
    /\ GROK_API_KEY \in KeyValues
    /\ RAPIDAPI_KEY \in KeyValues
    /\ conversation_history = <<>>
    /\ op = "none"
    /\ arg = NoArg
    /\ upstream = NotCalled
    /\ net_calls = 0
    /\ ret = NoRet

\* Each inbound message is one synchronous request/response cycle: the handler
\* takes the result and the process is ready for the next message.
handler_returns ==
    /\ op # "none"
    /\ op' = "none"
    /\ arg' = NoArg
    /\ upstream' = NotCalled
    /\ net_calls' = 0
    /\ ret' = NoRet
    /\ UNCHANGED <<GROK_API_KEY, RAPIDAPI_KEY, conversation_history>>

Next ==
    \/ get_pnr_status
    \/ route_user_intent
    \/ generate_full_daily_briefing
    \/ draft_email_interactive
    \/ user_turn
    \/ record_reply
    \/ session_closed
    \/ handler_returns

Spec == Init /\ [][Next]_vars

\* ======================================================================
\* Properties
\* ======================================================================

\* C1: whatever the lookup key and whatever the live layer does (no
\* credential, timeout, connection error, non-200 status, unparsable or
\* oddly shaped body, a body reporting no data), get_pnr_status returns a
\* result, and its success is true.
C1_AlwaysSuccess ==
    op = "get_pnr_status" => (ret.kind = "value" /\ ret.success = TRUE)

\* The live layer was called, its mapping raised on the reply, and the
\* simulated record came back.
C1_Witness ==
    /\ op = "get_pnr_status"
    /\ upstream.kind = "response"
    /\ LiveException(upstream) \in {"AttributeError", "ValueError", "TypeError"}
    /\ ret.kind = "value" /\ ret.success = TRUE
    /\ ret.data.train_name = "Superfast Express (Simulation)"

\* C2: a lookup key equal to the demo reservation number is answered with the
\* canned Rajdhani record, current_status "CNF", and no network call is
\* issued, with or without a RapidAPI credential.
C2_ShortcutNoNetwork ==
    (op = "get_pnr_status" /\ arg.pnr = DEMO_PNR) =>
        /\ ret = DemoResult(DEMO_PNR)
        /\ ret.data.current_status = "CNF"
        /\ ret.data.train_name = "12951 - Rajdhani Express"
        /\ net_calls = 0
        /\ upstream = NotCalled

\* The demo key looked up while the live credential is configured.
C2_Witness ==
    /\ op = "get_pnr_status"
    /\ arg.pnr = DEMO_PNR
    /\ Truthy(RAPIDAPI_KEY)
    /\ ret.data.current_status = "CNF"
    /\ net_calls = 0

\* The model answered: the content string of the reply was reached.
Answered == upstream.kind = "response" /\ upstream.envelope = "ok"

\* The JSON texts of a send command: objects whose top-level action is
\* "SEND_EMAIL".
CommitJsons ==
    {J \in Cores : json_loads(J).ok /\ <<<<"action">>, "SEND_EMAIL">> \in json_loads(J).val}

\* The parsed object a return value carries, {} when it carries none.
ParsedCommit(r) == IF r.kind = "object" THEN r.members ELSE {}

FenceOpenings == {<<FENCE_JSON, WS>>, <<FENCE, WS>>}
FenceClosing == <<WS, FENCE>>

\* C4: a reply that is the send command J inside code fences yields the same
\* parsed object as the reply that is J alone.
C4_FenceInvariant ==
    \A J \in CommitJsons : \A open \in FenceOpenings :
        (/\ op = "draft_email_interactive"
         /\ Answered
         /\ upstream.content = open \o J \o FenceClosing) =>
            ParsedCommit(ret) = ParsedCommit(extract_commit(J))

\* A fenced, complete send command was returned as an object.
C4_Witness ==
    /\ op = "draft_email_interactive"
    /\ Answered
    /\ upstream.content = <<FENCE_JSON, WS, LB, ACT, COMMA, REST, RB, WS, FENCE>>
    /\ ret.kind = "object"
    /\ <<<<"subject">>, "Leave request">> \in ret.members

\* C5: when the reply contains "action": "SEND_EMAIL" and the fragment the
\* expression matched does not parse, the reply is returned as it is: no
\* object, no empty text, no apology.
C5_ParseFailureReturnsText ==
    (/\ op = "draft_email_interactive"
     /\ Answered
     /\ Positions(upstream.content, ACT) # {}
     /\ re_search(upstream.content).found
     /\ ~json_loads(json_str_of(upstream.content)).ok) =>
        ret = Text(upstream.content)

\* A send command with a trailing comma came back as text.
C5_Witness ==
    /\ op = "draft_email_interactive"
    /\ Answered
    /\ upstream.content = <<LB, ACT, COMMA, RB>>
    /\ ret = Text(<<LB, ACT, COMMA, RB>>)

CommitFields == {"recipient_email", "subject", "body", "scheduled_time"}

\* The object is a send command: action at the top, and the four fields.
WellFormedCommit(leaves) ==
    /\ <<<<"action">>, "SEND_EMAIL">> \in leaves
    /\ \A f \in CommitFields : \E l \in leaves : l[1] = <<f>>

\* C6: an object returned by draft_email_interactive is always a well-formed
\* send command: top-level action "SEND_EMAIL" with recipient_email, subject,
\* body and scheduled_time.
C6_CommitWellFormed ==
    (op = "draft_email_interactive" /\ ret.kind = "object") =>
        WellFormedCommit(ret.members)

\* The call to the model failed: transport, status or envelope.
DraftCallFailed(out) == EnvelopeException(out) # "none" \/ out.envelope = "null_content"

\* C7: when the call to the model fails, draft_email_interactive returns the
\* apology, the caller's turns are what they were when the call was made,
\* and no object is returned.
C7_FailureLeavesSession ==
    (/\ op = "draft_email_interactive"
     /\ upstream # NotCalled
     /\ DraftCallFailed(upstream)) =>
        /\ ret = Text(<<APOLOGY>>)
        /\ conversation_history = arg.conversation_history

\* The call timed out in the middle of a session.
C7_Witness ==
    /\ op = "draft_email_interactive"
    /\ upstream.kind = "timeout"
    /\ Len(conversation_history) >= 2
    /\ ret = Text(<<APOLOGY>>)

\* A draft has been shown and the user's latest turn asks for a revision.
RevisionInDrafting(h) ==
    /\ \E i \in 1..Len(h) : h[i] = Turn("assistant", <<DRAFT_TEXT>>)
    /\ h # <<>>
    /\ h[Len(h)] = Turn("user", <<"revise the subject">>)

\* C8: in Drafting, after a revision request, the engine's turn produces no
\* commit action whatever the model writes, and the turns are retained.
C8_RevisionStaysDrafting ==
    (/\ op = "draft_email_interactive"
     /\ RevisionInDrafting(arg.conversation_history)) =>
        /\ ret.kind # "object"
        /\ conversation_history = arg.conversation_history

\* The classifier's reply could not be had: the call failed, the status was
\* an error, the envelope or the content was no JSON.
RouteFailure(out) == EnvelopeException(out) # "none" \/ LoadsException(out) # "none"

\* The classifier did not recognize the text: its reply names none of the
\* fourteen task intents.
NotRecognized(out) ==
    /\ ~RouteFailure(out)
    /\ LET v == out.content.value IN
        \/ v.type # "object"
        \/ "intent" \notin DOMAIN v.members
        \/ v.members.intent \notin Intents \ {"general_query"}

\* C3: whenever classification fails (no credential, network error or
\* timeout, error status, a body or content that is no JSON, or a text the
\* classifier does not recognize), route_user_intent returns exactly
\* {intent: "general_query", entities: {}}.
C3_FailureDegrades ==
    (op = "route_user_intent" /\
        (\/ ~Truthy(GROK_API_KEY)
         \/ RouteFailure(upstream)
         \/ NotRecognized(upstream))) =>
    ret = Value(general_query_result)

\* The part of C3 the handler of lines 316-318 does guarantee: without a
\* credential, or when the call, the envelope or json.loads fails, the
\* result is the general_query default.
route_degrades_on_call_failure ==
    (op = "route_user_intent" /\ (~Truthy(GROK_API_KEY) \/ RouteFailure(upstream))) =>
    ret = Value(general_query_result)

\* C9: for every input and upstream outcome the value returned by
\* generate_full_daily_briefing is an object with exactly the four keys
\* greeting, quote_explanation, detailed_history and detailed_weather, each
\* carrying a text.
C9_FourKeysAlways ==
    (op = "generate_full_daily_briefing" /\ ret.kind = "value") =>
        /\ ret.value.type = "object"
        /\ DOMAIN ret.value.members = BriefingKeys
        /\ \A k \in BriefingKeys : ret.value.members[k] # <<>>

HistoryFallbacks ==
    {NoKeyBundle("x").members.detailed_history, ErrorBundle("x").members.detailed_history}

\* C10: with an empty historical-events list the returned detailed_history is
\* its static fallback, and the other three fields are what they would be
\* otherwise: where the model supplied them, they are the model's texts.
C10_EmptyHistoryFallsBack ==
    (/\ op = "generate_full_daily_briefing"
     /\ arg.history_events = <<>>
     /\ ret.kind = "value"
     /\ ret.value.type = "object"
     /\ DOMAIN ret.value.members = BriefingKeys) =>
        /\ ret.value.members.detailed_history \in HistoryFallbacks
        /\ (/\ upstream # NotCalled
            /\ EnvelopeException(upstream) = "none"
            /\ LoadsException(upstream) = "none") =>
                \A k \in BriefingKeys \ {"detailed_history"} :
                    ret.value.members[k] = AiText(k)

\* C11: generate_full_daily_briefing never raises: whatever the
\* historical-events list (empty, or with malformed entries) and the weather
\* payload (malformed, or not serializable), with or without a credential,
\* the call returns a bundle.
C11_BriefingNeverRaises ==
    op = "generate_full_daily_briefing" => ret.kind = "value"

\* The credential is absent: the variable is unset or empty.
Absent(key) == key \in {None, ""}

GroqOperations ==
    {"route_user_intent", "draft_email_interactive", "generate_full_daily_briefing"}

\* C12: without the Groq key, route_user_intent, draft_email_interactive and
\* generate_full_daily_briefing return their static response and issue no
\* network call; without the RapidAPI key, get_pnr_status issues no network
\* call and the live layer is skipped for the simulated one.
C12_NoCredentialNoNetwork ==
    /\ (op \in GroqOperations /\ Absent(GROK_API_KEY)) =>
          /\ net_calls = 0
          /\ upstream = NotCalled
          /\ op = "route_user_intent" => ret = Value(general_query_result)
          /\ op = "draft_email_interactive" => ret = Text(<<KEY_MISSING>>)
          /\ op = "generate_full_daily_briefing" =>
                ret = Value(NoKeyBundle(arg.user_name))
    /\ (op = "get_pnr_status" /\ Absent(RAPIDAPI_KEY)) =>
          /\ net_calls = 0
          /\ upstream = NotCalled
          /\ ret.kind = "value"
          /\ ret.data.train_name \in
                {"12951 - Rajdhani Express", "Superfast Express (Simulation)"}

\* Without the RapidAPI key a key other than the demo one got the simulated
\* record, no call issued.
C12_Witness ==
    /\ op = "get_pnr_status"
    /\ RAPIDAPI_KEY = None
    /\ arg.pnr = OTHER_PNR
    /\ net_calls = 0
    /\ ret.data.train_name = "Superfast Express (Simulation)"

\* Without the Groq key the briefing is the static bundle, no call issued.
C12_WitnessGroq ==
    /\ op = "generate_full_daily_briefing"
    /\ GROK_API_KEY = None
    /\ net_calls = 0
    /\ ret = Value(NoKeyBundle(arg.user_name))

\* The value is a JSON object whose intent is one of the fifteen tags.
IntentInVocabulary(v) ==
    IF v.type # "object" THEN FALSE
    ELSE IF "intent" \notin DOMAIN v.members THEN FALSE
    ELSE v.members.intent \in Intents

\* C13: for every input text and every upstream reply, the result of
\* route_user_intent is an object whose intent is one of the fifteen tags; a
\* reply with another intent value, no intent field, or a non-object JSON
\* value is never returned as it came.
C13_IntentInVocabulary ==
    op = "route_user_intent" =>
        /\ ret.kind = "value"
        /\ IntentInVocabulary(ret.value)

\* The day after a date of the clock.
NextDate(date) == IF date = "2026-11-03" THEN "2026-11-04" ELSE "later"

\* The next nine in the evening at or after the clock reading.
NextOccurrence(now) ==
    IF now.hour < 21 THEN now.date \o " 21:00:00"
    ELSE NextDate(now.date) \o " 21:00:00"

IsSetReminder(v) ==
    IF v.type # "object" THEN FALSE
    ELSE IF "intent" \notin DOMAIN v.members THEN FALSE
    ELSE IF v.members.intent # "set_reminder" THEN FALSE
    ELSE "entities" \in DOMAIN v.members

TimestampPresent(e) ==
    IF "timestamp" \notin DOMAIN e THEN FALSE ELSE e.timestamp # None

\* C14: in every set_reminder result of route_user_intent each reminder
\* entity has a timestamp that is present and not null; for the recurrence
\* phrasing "every day at 9pm" with no date the timestamp is today's nine in
\* the evening when the clock has not reached it, and tomorrow's otherwise.
C14_ReminderTimestamp ==
    (op = "route_user_intent" /\ ret.kind = "value" /\ IsSetReminder(ret.value)) =>
        \A i \in DOMAIN ret.value.members.entities.items :
            LET e == ret.value.members.entities.items[i] IN
            /\ TimestampPresent(e)
            /\ arg.text = "remind me to call mom every day at 9pm" =>
                    e.timestamp = NextOccurrence(arg.now)

RecordFields ==
    {"train_name", "pnr", "doj", "booking_status", "current_status", "coach",
     "berth", "delay_minutes", "current_location", "destination"}

\* The field of the record each key of the provider fills, and the value the
\* field has when the provider leaves the key out.
FieldOf ==
    [trainName |-> "train_name", doj |-> "doj", bookingStatus |-> "booking_status",
     currentStatus |-> "current_status", coach |-> "coach", berthNumber |-> "berth",
     delay |-> "delay_minutes", currentStation |-> "current_location",
     destinationName |-> "destination"]

DefaultOf ==
    [train_name |-> "Unknown Train", doj |-> "N/A", booking_status |-> "CNF",
     current_status |-> "CNF", coach |-> "N/A", berth |-> "N/A",
     delay_minutes |-> 0, current_location |-> "En Route",
     destination |-> "Destination"]

\* A 200 reply the mapping cannot handle: the body is no JSON object, its data
\* member is no object, or its delay is no number.
Unmappable(out) ==
    IF out.kind # "response" THEN FALSE
    ELSE IF out.status_code # 200 THEN FALSE
    ELSE IF out.body.type # "dict" THEN TRUE
    ELSE IF out.body.data.type \in {"null", "str", "list"} THEN TRUE
    ELSE IF "delay" \notin DOMAIN out.body.data.fields THEN FALSE
    ELSE out.body.data.fields.delay \in {"late", None}

\* A 200 reply that reports data as a JSON object the mapping handles.
Mapped(out) ==
    IF out.kind # "response" THEN FALSE
    ELSE IF out.status_code # 200 \/ Unmappable(out) THEN FALSE
    ELSE \/ out.body.status = "true"
         \/ out.body.data.type = "dict" /\ DOMAIN out.body.data.fields # {}

IsSimulated(r) ==
    IF r.kind # "value" THEN FALSE
    ELSE r.data.train_name = "Superfast Express (Simulation)"

\* C15: whichever layer answers get_pnr_status, the data record has exactly
\* the ten fields; in the live layer every key the provider omits is filled
\* with its default; a payload the mapping cannot handle gives the simulated
\* record, never an exception or a record with fields missing.
C15_TenFieldsAlways ==
    op = "get_pnr_status" =>
        /\ ret.kind = "value"
        /\ DOMAIN ret.data = RecordFields
        /\ (upstream # NotCalled /\ Mapped(upstream)) =>
              \A k \in DOMAIN FieldOf :
                  k \notin DOMAIN upstream.body.data.fields =>
                      ret.data[FieldOf[k]] = DefaultOf[FieldOf[k]]
        /\ (upstream # NotCalled /\ Unmappable(upstream)) => IsSimulated(ret)

\* The provider sent two of its nine keys and the record has the defaults.
C15_Witness ==
    /\ op = "get_pnr_status"
    /\ upstream # NotCalled
    /\ Mapped(upstream)
    /\ DOMAIN upstream.body.data.fields = {"trainName", "currentStatus"}
    /\ ret.data.train_name = "12002 - Shatabdi Express"
    /\ ret.data.doj = "N/A"
    /\ ret.data.delay_minutes = 0

\* The provider sent a delay that is no number and the record is the
\* simulated one.
C15_WitnessUnmappable ==
    /\ op = "get_pnr_status"
    /\ upstream # NotCalled
    /\ Unmappable(upstream)
    /\ upstream.body.type = "dict"
    /\ upstream.body.data.type = "dict"
    /\ IsSimulated(ret)

\* t is s without the whitespace in front of it and behind it (t itself
\* neither begins nor ends with whitespace).
TrimsTo(s, t) ==
    \E i \in 0..Len(s) :
        /\ i + Len(t) <= Len(s)
        /\ SubSeq(s, i + 1, i + Len(t)) = t
        /\ \A k \in 1..Len(s) :
              (k <= i \/ k > i + Len(t)) => s[k] \in Whitespace

\* s with every space character taken out.
WithoutSpaces(s) == SelectSeq(s, LAMBDA c : c # " ")

ShortcutTaken ==
    /\ ret.kind = "value"
    /\ ret.data.train_name = "12951 - Rajdhani Express"
    /\ net_calls = 0

\* C16 as stated: the Shortcut layer is taken exactly when the key with its
\* leading and trailing whitespace removed equals the sentinel; a key that
\* differs in any other way, such as whitespace between its digits, is not
\* treated as the sentinel.
C16_TrimOnly ==
    op = "get_pnr_status" => (ShortcutTaken <=> TrimsTo(arg.pnr, DEMO_PNR))

\* C16: get_pnr_status normalizes the lookup key by removing every space
\* character, wherever it stands, and then trimming leading and trailing
\* whitespace; the Shortcut layer is taken exactly when the key so normalized
\* equals the sentinel.  A key that differs from the sentinel in any other
\* way (other digits, fewer digits, a tab between its digits) is not treated
\* as the sentinel.
C16_SpacesRemovedThenTrimmed ==
    op = "get_pnr_status" =>
        (ShortcutTaken <=> TrimsTo(WithoutSpaces(arg.pnr), DEMO_PNR))

\* The sentinel with a space between its digits was answered by the Shortcut
\* layer.
C16_Witness ==
    /\ op = "get_pnr_status"
    /\ arg.pnr = InsertMid(DEMO_PNR, <<" ">>)
    /\ ShortcutTaken
    /\ ret.data.pnr = DEMO_PNR

\* The sentinel with a tab between its digits was not.
C16_WitnessTab ==
    /\ op = "get_pnr_status"
    /\ arg.pnr = InsertMid(DEMO_PNR, <<"\t">>)
    /\ ~ShortcutTaken

\* The send commands valid on their own: they parse, and the object has the
\* action and the four fields at its top.
ValidCommits ==
    {J \in Cores : json_loads(J).ok /\ WellFormedCommit(json_loads(J).val)}

\* Prose in front of and behind the command, with and without braces in it.
ProseBefore == {<<>>, <<INTRO, WS>>, <<INTRO, LB, WORD, RB, WS>>}
ProseAfter == {<<>>, <<WS, OUTRO>>, <<WS, LB, WORD, RB>>}

\* C17: for every model output that embeds one valid send command inside
\* surrounding prose, prose with "{" or "}" or brace-delimited fragments
\* before or after the command included, draft_email_interactive returns
\* that command as an object, not the raw text.
C17_SmallestObjectExtracted ==
    (op = "draft_email_interactive" /\ Answered) =>
        \A J \in ValidCommits, p \in ProseBefore, x \in ProseAfter :
            upstream.content = p \o J \o x =>
                ret = Object(json_loads(J).val)

====
